---- MODULE Spec2Model ----
(***************************************************************************)
(* Elastic stick simulator: the Stick class (constructor, updateProperties,*)
(* reset, swing, performPhysicsStep, queryPNormalize) and the Vec3 helpers *)
(* it uses.                                                                *)
(*                                                                         *)
(* Numbers.  The program computes in IEEE doubles; here every number is a  *)
(* fixed-point integer and every operator rounds to the nearest one.       *)
(*   coarse numbers, four decimals (n stands for n / Q):                   *)
(*     positions, lengths, the ElasticProperties fields, degrees;          *)
(*   fine numbers, eight decimals (n stands for n / QQ):                   *)
(*     unit vectors, sines and cosines, radians, weights, dt.              *)
(* The literals of the program are exact on these grids (0.1 is 1000,      *)
(* 0.0001 is 1, 179.9 is 1799000 coarse; 0.001 is 100000 fine).  What the  *)
(* program satisfies up to floating tolerance is stated with the           *)
(* tolerances Eps (a length) and EpsCos (a cosine).                        *)
(***************************************************************************)
EXTENDS Integers, Sequences, FiniteSets, TLC

Q == 10 * 10 * 10 * 10
QQ == Q * Q

Abs(a) == IF a < 0 THEN 0 - a ELSE a
Sgn(a) == IF a < 0 THEN 0 - 1 ELSE IF a > 0 THEN 1 ELSE 0
Max(a, b) == IF a >= b THEN a ELSE b
Min(a, b) == IF a <= b THEN a ELSE b

(* a * b = MulHi(a, b) * Q + MulLo(a, b) for a, b >= 0, within 31 bits *)
MulHi(a, b) ==
    (a \div Q) * (b \div Q) * Q + (a \div Q) * (b % Q) + (a % Q) * (b \div Q)
      + ((a % Q) * (b % Q)) \div Q

MulLo(a, b) == ((a % Q) * (b % Q)) % Q

(* a * b / Q for a, b >= 0, rounded to nearest *)
MulAbs(a, b) == MulHi(a, b) + (2 * MulLo(a, b)) \div Q

(* the product of two coarse numbers (or of a coarse and a fine one, which *)
(* is then fine)                                                           *)
Mul4(a, b) == Sgn(a) * Sgn(b) * MulAbs(Abs(a), Abs(b))

(* a * b / QQ for a, b >= 0, rounded to nearest *)
MulAbs8(a, b) ==
    MulHi(a, b \div Q)
      + (MulLo(a, b \div Q) + MulHi(a, b % Q) + Q \div 2) \div Q

(* the product of a number with a fine one, on the grid of the first *)
Mul8(a, b) == Sgn(a) * Sgn(b) * MulAbs8(Abs(a), Abs(b))

(* a * QQ / b for a >= 0 and 0 < b < 2^31 / 10, by long division, rounded *)
DivDigits(a, b) ==
    LET r0 == a % b
        r1 == (r0 * 10) % b
        r2 == (r1 * 10) % b
        r3 == (r2 * 10) % b
        r4 == (r3 * 10) % b
        r5 == (r4 * 10) % b
        r6 == (r5 * 10) % b
        r7 == (r6 * 10) % b
        r8 == (r7 * 10) % b
    IN  (a \div b) * QQ
          + ((r0 * 10) \div b) * 10000000 + ((r1 * 10) \div b) * 1000000
          + ((r2 * 10) \div b) * 100000 + ((r3 * 10) \div b) * 10000
          + ((r4 * 10) \div b) * 1000 + ((r5 * 10) \div b) * 100
          + ((r6 * 10) \div b) * 10 + ((r7 * 10) \div b)
          + (2 * r8) \div b

(* largest divisor DivDigits takes; a longer one is halved with its dividend *)
DivMax == 2 * QQ

DivAbs8(a, b) ==
    DivDigits(IF b > DivMax THEN a \div 2 ELSE a,
              IF b > DivMax THEN b \div 2 ELSE b)

(* the quotient a / b of two numbers of one grid, b # 0, as a fine number *)
Div8(a, b) == Sgn(a) * Sgn(b) * DivAbs8(Abs(a), Abs(b))

(* floor of the square root of n, 0 <= n < 2^31: Newton's iteration from   *)
(* above                                                                   *)
RECURSIVE ISqrtIter(_, _)
ISqrtIter(n, r) ==
    LET r1 == (r + n \div r) \div 2
    IN  IF r1 >= r THEN r ELSE ISqrtIter(n, r1)

ISqrtStart(n) ==
    IF n < 100 THEN 10
    ELSE IF n < 10000 THEN 100
    ELSE IF n < 1000000 THEN 1000
    ELSE IF n < 100000000 THEN 10000
    ELSE 46341

ISqrt(n) == IF n < 2 THEN n ELSE ISqrtIter(n, ISqrtStart(n))

(* one Newton step for the square root of y from s, rounding by r *)
SqrtStep(y, s, r) == (s + Div8(y, s) + r) \div 2

(* Math.sqrt of a fine number in [0, 1]: three Newton steps from the       *)
(* integer root                                                            *)
Sqrt8(y) ==
    IF y <= 0 THEN 0
    ELSE SqrtStep(y, SqrtStep(y, SqrtStep(y, ISqrt(y) * Q, 0), 0), 1)

(* Math.PI, Math.PI / 2 and Math.PI / 180, fine *)
PI == 314159265

HalfPI == (PI + 1) \div 2

RadPerDeg == PI \div 180

(* the series t - t x^2/((k+1)(k+2)) + ... with last term x^15/15!,        *)
(* from the term t of degree k                                             *)
RECURSIVE SinSum(_, _, _)
SinSum(t, x2, k) ==
    IF k >= 15 THEN t
    ELSE t - SinSum(Mul8(t, x2) \div ((k + 1) * (k + 2)), x2, k + 2)

(* Math.sin on [0, PI/2]: the series x - x^3/3! + x^5/5! - ... - x^15/15! *)
SinSeries(x) == Min(QQ, SinSum(x, Mul8(x, x), 1))

(* Math.sin on [-PI, PI] *)
Sin(x) ==
    Sgn(x) * SinSeries(IF Abs(x) > HalfPI THEN Max(0, PI - Abs(x)) ELSE Abs(x))

(* Math.cos on [-PI/2, PI] *)
Cos(x) == Sin(HalfPI - x)

(* Math.asin on [0, sin(PI/4)]: Newton's iteration on sin *)
AsinStep(x, phi) == phi + Div8(x - Sin(phi), Cos(phi))

RECURSIVE AsinIter(_, _, _)
AsinIter(x, phi, i) ==
    IF i = 0 THEN phi ELSE AsinIter(x, AsinStep(x, phi), i - 1)

AsinSmall(x) == AsinIter(x, x, 4)

(* 2 asin(sqrt((1 - |c|) / 2)), the angle between c and the nearer of 1, -1 *)
HalfAngle(c) == 2 * AsinSmall(Sqrt8((QQ - Abs(c)) \div 2))

(* Math.acos on [-1, 1], by the half-angle formulas                        *)
(*   acos(c) = 2 asin(sqrt((1 - c) / 2))        for c >= 0                 *)
(*   acos(c) = PI - 2 asin(sqrt((1 + c) / 2))   for c < 0                  *)
AcosOf(c, half) ==
    IF c >= QQ THEN 0
    ELSE IF c <= 0 - QQ THEN PI
    ELSE IF c >= 0 THEN half
    ELSE PI - half

Acos(c) == AcosOf(c, HalfAngle(c))

(***************************************************************************)
(* Vec3 (utils/vector)                                                     *)
(***************************************************************************)
Vec(a, b, c) == [x |-> a, y |-> b, z |-> c]

VAdd(a, b) == [x |-> a.x + b.x, y |-> a.y + b.y, z |-> a.z + b.z]

VSub(a, b) == [x |-> a.x - b.x, y |-> a.y - b.y, z |-> a.z - b.z]

(* Vec3.scale by a coarse factor *)
VScale4(v, s) == [x |-> Mul4(v.x, s), y |-> Mul4(v.y, s), z |-> Mul4(v.z, s)]

(* Vec3.scale by a fine factor *)
VScale8(v, s) == [x |-> Mul8(v.x, s), y |-> Mul8(v.y, s), z |-> Mul8(v.z, s)]

(* Vec3.dot of two fine vectors *)
VDot(a, b) == Mul8(a.x, b.x) + Mul8(a.y, b.y) + Mul8(a.z, b.z)

(* largest component magnitude that can be squared and summed in 31 bits *)
SmallVec == 26 * 1000

Sq(a) == a * a

(* |(ax, ay, az)| / m for m the largest of the three, coarse *)
UnitLength(ax, ay, az, m) ==
    ISqrt(Sq(Div8(ax, m) \div Q) + Sq(Div8(ay, m) \div Q)
            + Sq(Div8(az, m) \div Q))

(* one Newton step for the length from the estimate l0 *)
LengthStep(ax, ay, az, m, l0) ==
    Max(m, (l0 + Mul8(ax, Div8(ax, l0)) + Mul8(ay, Div8(ay, l0))
               + Mul8(az, Div8(az, l0)) + 1) \div 2)

(* Math.sqrt(x*x + y*y + z*z) for a vector whose largest component         *)
(* magnitude is m > SmallVec: a first estimate from the components scaled  *)
(* by m, then one Newton step on the components themselves                 *)
LongLength(ax, ay, az, m) ==
    LengthStep(ax, ay, az, m, Max(m, MulAbs(m, UnitLength(ax, ay, az, m))))

LengthOf(ax, ay, az, m) ==
    IF m <= SmallVec THEN ISqrt(Sq(ax) + Sq(ay) + Sq(az))
    ELSE LongLength(ax, ay, az, m)

(* Vec3.length, on the grid of the components *)
VLength(v) ==
    LengthOf(Abs(v.x), Abs(v.y), Abs(v.z),
             Max(Abs(v.x), Max(Abs(v.y), Abs(v.z))))

(* Vec3.scale(v, 1 / d) for d > 0, fine: the reciprocal and the product in *)
(* one division                                                            *)
VScaleInv(v, d) == [x |-> Div8(v.x, d), y |-> Div8(v.y, d), z |-> Div8(v.z, d)]

(* NormalizeBy with a default direction, +y, for the zero vector *)
NormalizeByDefault(v, len) ==
    IF len = 0 THEN Vec(0, QQ, 0) ELSE VScaleInv(v, len)

(* Vec3.normalize, fine: len === 0 yields the zero vector *)
NormalizeBy(v, len) == IF len = 0 THEN Vec(0, 0, 0) ELSE VScaleInv(v, len)

VNormalize(v) == NormalizeBy(v, VLength(v))

(***************************************************************************)
(* ElasticProperties (types.ts) and the inline defaults of the Stick       *)
(***************************************************************************)
Props(k, c, m, sf, g, msr, mba, tp) ==
    [stiffness |-> k, damping |-> c, mass |-> m, stretchFactor |-> sf,
     gripRatio |-> g, maxStretchRatio |-> msr, maxBendAngle |-> mba,
     taper |-> tp]

(* this.props.gripRatio || 0 *)
GripRatioOf(p) == IF p.gripRatio = 0 THEN 0 ELSE p.gripRatio

(* this.props.taper || 0 *)
TaperOf(p) == IF p.taper = 0 THEN 0 ELSE p.taper

(* this.props.maxStretchRatio || 1.5 *)
MaxRatioOf(p) == IF p.maxStretchRatio = 0 THEN 15000 ELSE p.maxStretchRatio

(* ActiveLength without the grip: the whole stick taken for the blade *)
ActiveLengthFull(len, p) == len

(* this.length * (1 - gripRatio) *)
ActiveLength(len, p) == Mul4(len, Q - GripRatioOf(p))

(* SwingDegenerate with the threshold 0.01 *)
SwingDegenerateSmall(al) == al < 100

(* swing: activeLength < 0.1 *)
SwingDegenerate(al) == al < 1000

(* QueryDegenerate with the test of swing, activeLength < 0.1 *)
QueryDegenerateStrict(al) == al < 1000

(* queryPNormalize: activeLength <= 0.1 *)
QueryDegenerate(al) == al <= 1000

(* handlePos + handleDir * activeLength *)
RestPose(hp, hd, al) == VAdd(hp, VScale8(hd, al))

(***************************************************************************)
(* Stick.performPhysicsStep, stage by stage                                *)
(***************************************************************************)

(* Drag without the floor at 0 *)
DragUnclamped(p, dt) == QQ - Mul4(p.damping, dt)

(* Math.max(0, 1.0 - damping * dt), fine *)
Drag(p, dt) == Max(0, QQ - Mul4(p.damping, dt))

(* VerletStep without the spring: the damped velocity alone *)
VerletStepNoSpring(tip, old, hp, hd, p, al, dt) ==
    VAdd(tip, VScale8(VSub(tip, old), Drag(p, dt)))

(* 1.-2. Verlet integration with the bending spring: tipPos + delta *)
VerletStep(tip, old, hp, hd, p, al, dt) ==
    LET velocity == VSub(tip, old)
        dampedVelocity == VScale8(velocity, Drag(p, dt))
        idealTipPos == VAdd(hp, VScale8(hd, al))
        displacement == VSub(idealTipPos, tip)
        taperMultiplier == Q + Mul4(TaperOf(p), 5000)
        effectiveStiffness == Mul4(p.stiffness, taperMultiplier)
        springForce == VScale4(displacement, effectiveStiffness)
        mass == Max(1000, p.mass)
        accel == VScale8(springForce, Div8(Q, mass))
        delta == VAdd(dampedVelocity, VScale8(accel, Mul8(dt, dt)))
    IN  VAdd(tip, delta)

(* Alpha without the ceiling at 1 *)
AlphaUnclamped(p, dt) == Max(0, Mul4(Mul4(p.stretchFactor, 500), dt))

(* Math.min(1.0, Math.max(0.0, stretchFactor * 0.05 * dt)), fine *)
Alpha(p, dt) == Min(QQ, Max(0, Mul4(Mul4(p.stretchFactor, 500), dt)))

(* 3. soft length constraint, given currentLen = |nextPos - handlePos| *)
SoftLengthOf(nextPos, hp, p, al, dt, currentLen) ==
    LET toHandle == VSub(nextPos, hp)
        correctionLen == currentLen + Mul8(al - currentLen, Alpha(p, dt))
    IN  IF currentLen > 1
        THEN VAdd(hp, VScale8(VNormalize(toHandle), correctionLen))
        ELSE nextPos

SoftLength(nextPos, hp, p, al, dt) ==
    SoftLengthOf(nextPos, hp, p, al, dt, VLength(VSub(nextPos, hp)))

(* maxAngleDeg * (Math.PI / 180), fine *)
MaxAngleRad(p) == Mul4(p.maxBendAngle, RadPerDeg)

(* the slerp of step 4: handleDir rotated towards tipDir by maxAngleRad.   *)
(* The code divides both sines by sin(currentAngle) (w1, w2) and uses the  *)
(* sum only through Vec3.normalize; the common positive divisor is left    *)
(* out here, the sum has the same direction.  At currentAngle = PI the     *)
(* divisor is sin(PI), which in doubles is 1.2e-16, and                    *)
(* newDir = handleDir * (w1 - w2) has the sign of the rounding residue of  *)
(* the two sines: noise is that sign.                                      *)
SlerpDir(hd, tipDir, maxAngleRad, currentAngle, noise) ==
    LET tSlerp == Div8(maxAngleRad, currentAngle)
        sinAngle == Sin(currentAngle)
        s1 == Sin(Mul8(QQ - tSlerp, currentAngle))
        s2 == Sin(Mul8(tSlerp, currentAngle))
    IN  IF sinAngle = 0 THEN VScale8(hd, noise * QQ)
        ELSE VAdd(VScale8(hd, s1), VScale8(tipDir, s2))

(* 4. hard constraint: max bend angle.  Yields [pos, fired, sing]: the new *)
(* nextPos, whether it was rewritten, whether the slerp divided by sin(PI). *)
(* One operator per nested block of the code, each given the constants the *)
(* enclosing block has computed.                                           *)
BendSkip(nextPos) == [pos |-> nextPos, fired |-> FALSE, sing |-> FALSE]

(* if (currentAngle > 0.001) { ... nextPos = handlePos + newDir * tipDist } *)
BendOfAngle(nextPos, hp, hd, p, noise, tipDist, tipDir, currentAngle) ==
    LET newDir == SlerpDir(hd, tipDir, MaxAngleRad(p), currentAngle, noise)
    IN  IF currentAngle > 100000
        THEN [pos |-> VAdd(hp, VScale8(VNormalize(newDir), tipDist)),
              fired |-> TRUE, sing |-> Sin(currentAngle) = 0]
        ELSE BendSkip(nextPos)

(* if (cosAngle < minCos) { currentAngle = Math.acos(clamp(cosAngle)) ... } *)
BendOfCos(nextPos, hp, hd, p, noise, tipDist, tipDir, cosAngle) ==
    IF cosAngle < Cos(MaxAngleRad(p))
    THEN BendOfAngle(nextPos, hp, hd, p, noise, tipDist, tipDir,
                     Acos(Max(0 - QQ, Min(QQ, cosAngle))))
    ELSE BendSkip(nextPos)

(* if (maxAngleDeg < 179.9) { cosAngle = dot(tipDir, handleDir) ... } *)
BendOfDir(nextPos, hp, hd, p, noise, tipDist, tipDir) ==
    IF p.maxBendAngle < 1799000
    THEN BendOfCos(nextPos, hp, hd, p, noise, tipDist, tipDir,
                   VDot(tipDir, hd))
    ELSE BendSkip(nextPos)

(* if (tipDist > 0.0001) { tipDir = vecToTip * (1 / tipDist) ... } *)
BendOfDist(nextPos, hp, hd, p, noise, tipDist) ==
    IF tipDist > 1
    THEN BendOfDir(nextPos, hp, hd, p, noise, tipDist,
                   VScaleInv(VSub(nextPos, hp), tipDist))
    ELSE BendSkip(nextPos)

BendClamp(nextPos, hp, hd, p, noise) ==
    BendOfDist(nextPos, hp, hd, p, noise, VLength(VSub(nextPos, hp)))

(* StretchClamp left out *)
StretchClampNone(nextPos, hp, p, al) == nextPos

(* 5. hard constraint: max stretch length *)
StretchClamp(nextPos, hp, p, al) ==
    LET maxAllowedLen == Mul4(al, MaxRatioOf(p))
        finalVec == VSub(nextPos, hp)
        finalDist == VLength(finalVec)
    IN  IF finalDist > maxAllowedLen
        THEN VAdd(hp, VScale8(VNormalize(finalVec), maxAllowedLen))
        ELSE nextPos

(* the one element of a singleton *)
The(S) == CHOOSE e \in S : TRUE

(* performPhysicsStep that commits oldTipPos after tipPos: both the new tip *)
performPhysicsStepAliased(st, hp, hd, p, al, dt, noise) ==
    The(UNION {UNION {UNION {
        {[tip |-> n5, old |-> n5, sing |-> st.sing \/ b4.sing] :
            n5 \in {StretchClamp(b4.pos, hp, p, al)}} :
            b4 \in {BendClamp(n3, hp, hd, p, noise)}} :
            n3 \in {SoftLength(n1, hp, p, al, dt)}} :
            n1 \in {VerletStep(st.tip, st.old, hp, hd, p, al, dt)}})

(* one sub-step on st = [tip, old, sing]: stages 1-5 in the order of the   *)
(* code, then the commit oldTipPos = tempPos, tipPos = nextPos.  Each      *)
(* stage is bound before the next one reads it.                            *)
performPhysicsStep(st, hp, hd, p, al, dt, noise) ==
    The(UNION {UNION {UNION {
        {[tip |-> n5, old |-> st.tip, sing |-> st.sing \/ b4.sing] :
            n5 \in {StretchClamp(b4.pos, hp, p, al)}} :
            b4 \in {BendClamp(n3, hp, hd, p, noise)}} :
            n3 \in {SoftLength(n1, hp, p, al, dt)}} :
            n1 \in {VerletStep(st.tip, st.old, hp, hd, p, al, dt)}})

(* const subSteps = 8 *)
subSteps == 8

(* dt / subSteps, fine, rounded *)
SubDt(dt) == (dt + subSteps \div 2) \div subSteps

(* LoopContinues that stops one sub-step early *)
LoopContinuesShort(i) == i + 1 < subSteps

(* the loop condition of swing, i < subSteps *)
LoopContinues(i) == i < subSteps

(* the loop of swing: i more sub-steps from st; a singleton *)
RECURSIVE StepLoop(_, _, _, _, _, _, _, _)
StepLoop(i, st, hp, hd, p, al, dt, noise) ==
    IF i = 0 THEN {st}
    ELSE UNION {StepLoop(i - 1, n, hp, hd, p, al, dt, noise) :
                  n \in {performPhysicsStep(st, hp, hd, p, al, dt, noise)}}

(***************************************************************************)
(* Stick.queryPNormalize, lines 190-246                                    *)
(***************************************************************************)

(* Pommel that extends forwards: handlePos + handleDir * distBack *)
PommelForward(t, len, p, hp, hd) ==
    IF GripRatioOf(p) = 0 THEN hp
    ELSE VAdd(hp, VScale8(hd, Mul4(GripRatioOf(p) - t, len)))

(* Case 1, behind the grip: handlePos - handleDir * distBack *)
Pommel(t, len, p, hp, hd) ==
    IF GripRatioOf(p) = 0 THEN hp
    ELSE VSub(hp, VScale8(hd, Mul4(GripRatioOf(p) - t, len)))

(* SegmentT without the remap to the blade: t itself, fine *)
SegmentTRaw(t, p) == Div8(t, Q)

(* (t - gripRatio) / (1 - gripRatio), fine *)
SegmentT(t, p) == Div8(t - GripRatioOf(p), Q - GripRatioOf(p))

(* 0.33 + taper * 0.4 and 0.33 - taper * 0.1 *)
HandleWeight(p) == 3300 + Mul4(TaperOf(p), 4000)

TipWeight(p) == 3300 - Mul4(TaperOf(p), 1000)

(* control point 1: the tangent extended from the handle *)
ControlP1(p0, hd, p, al) == VAdd(p0, VScale8(hd, Mul4(al, HandleWeight(p))))

(* control point 2: projected back from the tip along the mix of the      *)
(* chord direction and the handle direction                                *)
ControlP2(p0, p3, hd, p, al) ==
    LET vecToTip == VSub(p3, p0)
        dirToHandle == VNormalize(VScale4(vecToTip, 0 - Q))
        p2Dir == VNormalize(VAdd(dirToHandle, VScale8(hd, QQ \div 2)))
    IN  VAdd(p3, VScale8(p2Dir, Mul4(al, TipWeight(p))))

(* the Bezier math: term0 + term1 + term2 + term3 at segmentT = sT, u = 1 - sT *)
BezierAt(p0, p1, p2, p3, sT, u) ==
    VAdd(VAdd(VScale8(p0, Mul8(Mul8(u, u), u)),
              VScale8(p1, Mul8(3 * Mul8(u, u), sT))),
         VAdd(VScale8(p2, Mul8(3 * u, Mul8(sT, sT))),
              VScale8(p3, Mul8(Mul8(sT, sT), sT))))

(* Bezier with u and segmentT exchanged: the curve run from the tip *)
BezierFromTip(p0, p1, p2, p3, sT) == BezierAt(p0, p1, p2, p3, QQ - sT, sT)

Bezier(p0, p1, p2, p3, sT) == BezierAt(p0, p1, p2, p3, sT, QQ - sT)

(* Case 2, the active blade *)
Blade(t, p, hp, hd, tip, al) ==
    IF QueryDegenerate(al) THEN hp
    ELSE Bezier(hp, ControlP1(hp, hd, p, al), ControlP2(hp, tip, hd, p, al),
                tip, SegmentT(t, p))

(* queryPNormalize(t) on the stick (len, p, hp, hd, tip), t coarse *)
QueryOf(t, len, p, hp, hd, tip) ==
    IF t < GripRatioOf(p) THEN Pommel(t, len, p, hp, hd)
    ELSE Blade(t, p, hp, hd, tip, ActiveLength(len, p))

(***************************************************************************)
(* The Stick as a state machine                                            *)
(***************************************************************************)
VARIABLES
    length,      \* this.length, coarse
    props,       \* this.props
    handlePos,   \* this.handlePos, coarse vector
    handleDir,   \* this.handleDir, fine vector
    tipPos,      \* this.tipPos, coarse vector
    oldTipPos,   \* this.oldTipPos, coarse vector
    lastOp,      \* history: the last call, "new" after the constructor
    prevOp,      \* history: the call before the last
    lastPos,     \* history: handlePos argument of the last swing
    lastDir,     \* history: handleDir argument of the last swing
    lastDt,      \* history: dt argument of the last swing
    stepsRun,    \* history: sub-steps the last swing ran
    tipBefore,   \* history: tipPos before the last call
    oldBefore,   \* history: oldTipPos before the last call
    nOps,        \* history: calls made so far, counted up to MaxOps
    queried,     \* the queries answered since the last call: NoQuery, or
                 \* [t, point] of the last queryPNormalize(t)
    ui           \* App: the length and elasticProps its React state holds

stick == <<length, props, handlePos, handleDir, tipPos, oldTipPos>>

history ==
    <<lastOp, prevOp, lastPos, lastDir, lastDt, stepsRun, tipBefore,
      oldBefore, nOps>>

vars == <<stick, history, queried, ui>>

(* no queryPNormalize since the last call *)
NoQuery == [t |-> 0 - 1, point |-> Vec(0, 0, 0)]

(* calls explored from a new Stick; after them, reset alone *)
MaxOps == 2

(* App: the initial useState values of the sliders *)
DefaultProps == Props(80000, 25000, 20000, 200000, 0, 15000, 1800000, 0)

(* a gripped, tapered stick with a bend cone, inside the slider ranges *)
GripProps == Props(80000, 25000, 20000, 200000, 5000, 12000, 1350000, 5000)

(* a stick the grip leaves no blade of: activeLength 0.05 *)
ShortProps == Props(80000, 25000, 20000, 200000, 9500, 15000, 1800000, 0)

Config(len, p) == [length |-> len, props |-> p]

DefaultConfig == Config(100 * Q, DefaultProps)

GripConfig == Config(100 * Q, GripProps)

ShortConfig == Config(Q, ShortProps)

Configs == {DefaultConfig, GripConfig, ShortConfig}

(* handle poses and frame times the driver passes to swing *)
Origin == Vec(0, 0, 0)

Up == Vec(0, Q, 0)

Right == Vec(2 * Q, 0, 0)

Down == Vec(0, 0 - Q, 0)

Handles == {Origin, Vec(30 * Q, 40 * Q, 0)}

Dirs == {Right, Down}

(* dt, fine: 0, 1/60 s, 16 s *)
Dts == {0, 1666667, 16 * QQ}

(* the fields a new Stick has for the configuration c, lines 15-27: the    *)
(* pose, then reset()                                                      *)
New(c) ==
    /\ length = c.length
    /\ props = c.props
    /\ handlePos = Origin
    /\ handleDir = Vec(0, QQ, 0)
    /\ tipPos = RestPose(Origin, Vec(0, QQ, 0),
                         ActiveLength(c.length, c.props))
    /\ oldTipPos = tipPos
    /\ lastOp = "new"
    /\ prevOp = "none"
    /\ lastPos = Origin
    /\ lastDir = Up
    /\ lastDt = 0
    /\ stepsRun = 0
    /\ tipBefore = Vec(0, c.length, 0)
    /\ oldBefore = Vec(0, c.length, 0)
    /\ nOps = 0
    /\ queried = NoQuery
    /\ ui = c

Init == \E c \in Configs : New(c)

(* the history after the call op *)
History(op, dt, n) ==
    /\ lastOp' = op
    /\ prevOp' = lastOp
    /\ lastDt' = dt
    /\ stepsRun' = n
    /\ tipBefore' = tipPos
    /\ oldBefore' = oldTipPos
    /\ nOps' = Min(MaxOps, nOps + 1)
    /\ queried' = NoQuery

(* updateProperties that re-seats the tip, as reset does *)
updatePropertiesReseat(c) ==
    /\ nOps < MaxOps
    /\ length' = c.length
    /\ props' = c.props
    /\ tipPos' = RestPose(handlePos, handleDir, ActiveLength(c.length, c.props))
    /\ oldTipPos' = tipPos'
    /\ UNCHANGED <<handlePos, handleDir, lastPos, lastDir>>
    /\ ui' = c
    /\ History("updateProperties", 0, 0)

(* updateProperties(length, props), lines 29-32 *)
UpdateProperties(c) ==
    /\ length' = c.length
    /\ props' = c.props
    /\ UNCHANGED <<handlePos, handleDir, tipPos, oldTipPos>>
    /\ UNCHANGED <<lastPos, lastDir>>
    /\ ui' = c
    /\ History("updateProperties", 0, 0)

updateProperties(c) == nOps < MaxOps /\ UpdateProperties(c)

(* reset that keeps oldTipPos, and with it the momentum *)
resetKeepOld ==
    /\ tipPos' = RestPose(handlePos, handleDir, ActiveLength(length, props))
    /\ UNCHANGED <<length, props, handlePos, handleDir, oldTipPos>>
    /\ UNCHANGED <<lastPos, lastDir, ui>>
    /\ History("reset", 0, 0)

(* reset(), lines 37-46, recorded in the history as the call op *)
Reset(op) ==
    /\ tipPos' = RestPose(handlePos, handleDir, ActiveLength(length, props))
    /\ oldTipPos' = tipPos'
    /\ UNCHANGED <<length, props, handlePos, handleDir>>
    /\ UNCHANGED <<lastPos, lastDir>>
    /\ History(op, 0, 0)

reset == Reset("reset") /\ UNCHANGED ui

(* the state after the loop, with the number of sub-steps run *)
AfterLoop(st) ==
    [tip |-> st.tip, old |-> st.old, sing |-> st.sing, steps |-> subSteps]

(* what swing leaves in tipPos / oldTipPos: [tip, old, sing, steps] *)
SwingResult(tip, old, len, p, h, hd, dt, noise) ==
    IF SwingDegenerate(ActiveLength(len, p))
    THEN [tip |-> h, old |-> h, sing |-> FALSE, steps |-> 0]
    ELSE AfterLoop(The(StepLoop(subSteps,
                                [tip |-> tip, old |-> old, sing |-> FALSE],
                                h, hd, p, ActiveLength(len, p), SubDt(dt),
                                noise)))

(* the signs the residue of the slerp can have besides 0 *)
Residues == {0 - 1, 1}

(* the results the build can produce, r0 being the one with residue 0: r0  *)
(* alone, unless a sub-step divided by sin(PI)                             *)
SwingResultsOf(r0, tip, old, len, p, h, hd, dt) ==
    IF r0.sing
    THEN {r0} \cup {SwingResult(tip, old, len, p, h, hd, dt, noise) :
                       noise \in Residues}
    ELSE {r0}

SwingResults(tip, old, len, p, h, hd, dt) ==
    SwingResultsOf(SwingResult(tip, old, len, p, h, hd, dt, 0),
                   tip, old, len, p, h, hd, dt)

(* swing(handlePos, handleDir, dt), lines 52-72 *)
Swing(h, d, dt) ==
    /\ handlePos' = h
    /\ handleDir' = VNormalize(d)
    /\ \E r \in SwingResults(tipPos, oldTipPos, length, props, h,
                             VNormalize(d), dt) :
          /\ tipPos' = r.tip
          /\ oldTipPos' = r.old
          /\ History("swing", dt, r.steps)
    /\ lastPos' = h
    /\ lastDir' = d
    /\ UNCHANGED <<length, props, ui>>

swing(h, d, dt) == nOps < MaxOps /\ Swing(h, d, dt)

Next ==
    \/ \E c \in Configs : updateProperties(c)
    \/ reset
    \/ \E h \in Handles, d \in Dirs, dt \in Dts : swing(h, d, dt)

Spec == Init /\ [][Next]_vars

(* queryPNormalize(t) in the current state; it changes nothing *)
queryPNormalize(t) == QueryOf(t, length, props, handlePos, handleDir, tipPos)

(***************************************************************************)
(* The swing sub-step by sub-step: the call enters (lines 53-63), then the *)
(* loop of lines 69-71 runs performPhysicsStep one call at a time.  Here   *)
(* lastOp is "swing" when the call has entered and "performPhysicsStep"    *)
(* after a sub-step, stepsRun counts the sub-steps of the call, tipBefore  *)
(* and oldBefore are the pair before the last sub-step, and nOps counts    *)
(* the sub-steps run since the Stick was made.                             *)
(***************************************************************************)

(* sub-steps explored from a new Stick *)
MaxSteps == 16

(* a gripped, tapered stick with a bend cone of 90 degrees *)
ConeProps == Props(80000, 25000, 20000, 200000, 5000, 12000, 900000, 5000)

ConeConfig == Config(100 * Q, ConeProps)

StepConfigs == {DefaultConfig, ConeConfig, ShortConfig}

UnitX == Vec(Q, 0, 0)

Slant == Vec(Q, 0 - 2 * Q, 2 * Q)

NoDir == Vec(0, 0, 0)

(* the handle poses passed: <<handlePos, handleDir>> *)
StepPoses ==
    {<<Origin, UnitX>>, <<Origin, Down>>, <<Vec(30 * Q, 40 * Q, 0), Slant>>,
     <<Origin, NoDir>>}

InitStep == \E c \in StepConfigs : New(c)

(* StoredDir without the normalization: the argument as it came, fine *)
StoredDirRaw(d) == [x |-> d.x * Q, y |-> d.y * Q, z |-> d.z * Q]

(* this.handleDir = Vec3.normalize(handleDir) *)
StoredDir(d) == VNormalize(d)

(* a swing is between two sub-steps of its loop, or before the first *)
InLoop ==
    /\ lastOp \in {"swing", "performPhysicsStep"}
    /\ ~SwingDegenerate(ActiveLength(length, props))
    /\ LoopContinues(stepsRun)

(* swing(h, d, dt) up to the loop, lines 53-67 *)
enterSwing(h, d, dt) ==
    /\ ~InLoop
    /\ nOps < MaxSteps
    /\ handlePos' = h
    /\ handleDir' = StoredDir(d)
    /\ IF SwingDegenerate(ActiveLength(length, props))
       THEN tipPos' = h /\ oldTipPos' = h
       ELSE UNCHANGED <<tipPos, oldTipPos>>
    /\ lastOp' = "swing"
    /\ prevOp' = lastOp
    /\ lastPos' = h
    /\ lastDir' = d
    /\ lastDt' = dt
    /\ stepsRun' = 0
    /\ tipBefore' = tipPos
    /\ oldBefore' = oldTipPos
    /\ queried' = NoQuery
    /\ UNCHANGED <<length, props, nOps, ui>>

(* the results one sub-step can produce, r0 being the one with residue 0 *)
StepResultsOf(r0, tip, old, hp, hd, p, al, dt) ==
    IF r0.sing
    THEN {r0} \cup {performPhysicsStep([tip |-> tip, old |-> old,
                                        sing |-> FALSE],
                                       hp, hd, p, al, dt, noise) :
                       noise \in Residues}
    ELSE {r0}

StepResults(tip, old, hp, hd, p, al, dt) ==
    StepResultsOf(performPhysicsStep([tip |-> tip, old |-> old,
                                      sing |-> FALSE],
                                     hp, hd, p, al, dt, 0),
                  tip, old, hp, hd, p, al, dt)

(* one pass of the loop: this.performPhysicsStep(activeLength, subDt) *)
subStep ==
    /\ InLoop
    /\ nOps < MaxSteps
    /\ \E r \in StepResults(tipPos, oldTipPos, handlePos, handleDir, props,
                            ActiveLength(length, props), SubDt(lastDt)) :
          /\ tipPos' = r.tip
          /\ oldTipPos' = r.old
    /\ lastOp' = "performPhysicsStep"
    /\ prevOp' = lastOp
    /\ stepsRun' = stepsRun + 1
    /\ tipBefore' = tipPos
    /\ oldBefore' = oldTipPos
    /\ nOps' = nOps + 1
    /\ queried' = NoQuery
    /\ UNCHANGED <<length, props, handlePos, handleDir, lastPos, lastDir,
                   lastDt, ui>>

NextStep ==
    \/ \E pose \in StepPoses, dt \in Dts : enterSwing(pose[1], pose[2], dt)
    \/ subStep

SpecStep == InitStep /\ [][NextStep]_vars

(***************************************************************************)
(* Properties                                                              *)
(***************************************************************************)

(* floating tolerance of a length (0.01) and of a cosine (0.0001) *)
Eps == Q \div 100

EpsCos == QQ \div Q

(* distance(tipPosition, handlePosition) *)
TipDist == VLength(VSub(tipPos, handlePos))

(* length * (1 - gripRatio) * maxStretchRatio of the current properties *)
StretchCap == Mul4(Mul4(length, Q - props.gripRatio), props.maxStretchRatio)

(* the cosine of the angle between tipPos - handlePos and handleDir *)
CosTip == VDot(VNormalize(VSub(tipPos, handlePos)), handleDir)

(* handlePos + handleDir * activeLength of the current state *)
IdealTip == VAdd(handlePos, VScale8(handleDir, Mul4(length, Q - props.gripRatio)))

(* C1: after any swing, whatever its dt (16 s included), the tip is no     *)
(* farther from the handle than activeLength * maxStretchRatio, up to Eps. *)
C1_MaxStretch == lastOp = "swing" => TipDist <= StretchCap + Eps

(* a swing whose sub-steps found the tip beyond the cap and left it on it *)
C1_Clamped ==
    /\ lastOp = "swing"
    /\ stepsRun = subSteps
    /\ VLength(VSub(tipBefore, handlePos)) > StretchCap + Eps
    /\ TipDist >= StretchCap - Eps

(* C2: after any swing of a stick with maxBendAngle < 179.9 the angle      *)
(* between tipPos - handlePos and handleDir is at most maxBendAngle, up to *)
(* EpsCos in the cosine, a handle direction flipped by 180 degrees         *)
(* included.                                                               *)
C2_MaxBend ==
    (lastOp = "swing" /\ props.maxBendAngle < 1799000)
        => CosTip >= Cos(MaxAngleRad(props)) - EpsCos

(* C3: swing(h, d, 0) leaves tipPos where it was, up to Eps.  Stated for   *)
(* the sticks with activeLength >= 0.1; the others are snapped to h.       *)
C3_ZeroDtNoOp ==
    (lastOp = "swing" /\ lastDt = 0 /\ stepsRun = subSteps)
        => VLength(VSub(tipPos, tipBefore)) <= Eps

(***************************************************************************)
(* The handle held: one swing to a pose, then swings with that pose and dt *)
(***************************************************************************)

(* frame times held: 0.8 s, 16 s *)
HoldDts == {80 * (QQ \div 100), 16 * QQ}

HoldConfigs == {DefaultConfig, GripConfig}

InitHold == \E c \in HoldConfigs : New(c)

(* the first swing: the driver tilts the handle *)
tilt(d, dt) == lastOp = "new" /\ Swing(Origin, d, dt)

(* every later swing repeats the arguments of the one before *)
hold == lastOp = "swing" /\ Swing(lastPos, lastDir, lastDt)

NextHold ==
    \/ \E d \in Dirs \cup {Up}, dt \in HoldDts : tilt(d, dt)
    \/ hold

(* the driver calls swing on every animation frame *)
SpecHold == InitHold /\ [][NextHold]_vars /\ WF_vars(NextHold)

(* tipPos is within Eps of handlePos + handleDir * activeLength *)
AtRest == VLength(VSub(tipPos, IdealTip)) <= Eps

(* C4: with the handle held and stiffness, damping > 0, repeated swings,   *)
(* whatever their positive dt, bring tipPos within Eps of the rest pose    *)
(* and it stays there.  A held swing that leaves tipPos and oldTipPos as   *)
(* it found them is repeated by every later one, so the stick must be at   *)
(* rest when that happens.                                                 *)
C4_HeldAtRest ==
    (/\ lastOp = "swing"
     /\ prevOp = "swing"
     /\ tipPos = tipBefore
     /\ oldTipPos = oldBefore)
        => AtRest

(* C5: after reset tipPos - oldTipPos is exactly zero, and a reset that    *)
(* follows a reset (or the constructor's) leaves the pair as it was.       *)
C5_ResetIdempotent ==
    lastOp = "reset"
        => /\ VSub(tipPos, oldTipPos) = Vec(0, 0, 0)
           /\ prevOp \in {"reset", "new"}
                 => (tipPos = tipBefore /\ oldTipPos = oldBefore)

(* two resets in a row, on a stick a swing has moved *)
C5_ResetTwice ==
    /\ lastOp = "reset"
    /\ prevOp = "reset"
    /\ handlePos # Origin

(* C6: a swing of a stick with activeLength < 0.1 stores the handle pose,  *)
(* sets tipPos = oldTipPos = h exactly and runs no sub-step, for every dt  *)
(* and prior tip.                                                          *)
C6_DegenerateRod ==
    (lastOp = "swing" /\ Mul4(length, Q - props.gripRatio) < 1000)
        => /\ handlePos = lastPos
           /\ handleDir = VNormalize(lastDir)
           /\ tipPos = lastPos
           /\ oldTipPos = lastPos
           /\ stepsRun = 0

(* a degenerate stick swung with dt > 0 to a handle its tip was not at *)
C6_DegenerateSwung ==
    /\ lastOp = "swing"
    /\ Mul4(length, Q - props.gripRatio) < 1000
    /\ lastDt > 0
    /\ tipBefore # lastPos
    /\ tipPos = lastPos

(* C7: Query(1) is tipPos on every stick with activeLength > 0.1, and      *)
(* handlePos on the others.                                                *)
C7_QueryTip ==
    queryPNormalize(Q) =
        IF Mul4(length, Q - props.gripRatio) > 1000 THEN tipPos ELSE handlePos

(* C7 as written: Query(1) is tipPos in every reachable state. *)
C7_QueryTipAlways == queryPNormalize(Q) = tipPos

(* a gripped stick whose tip a swing has bent away from the rest pose *)
C7_BentTip ==
    /\ lastOp = "swing"
    /\ props.gripRatio > 0
    /\ stepsRun = subSteps
    /\ ~AtRest
    /\ queryPNormalize(Q) = tipPos

(* C8: Query(gripRatio) is handlePos when gripRatio > 0, and Query(0) is   *)
(* handlePos when gripRatio = 0.                                           *)
C8_QueryPivot ==
    /\ props.gripRatio > 0 => queryPNormalize(props.gripRatio) = handlePos
    /\ props.gripRatio = 0 => queryPNormalize(0) = handlePos

(* a gripped, bent stick away from the origin *)
C8_BentGrip ==
    /\ lastOp = "swing"
    /\ props.gripRatio > 0
    /\ stepsRun = subSteps
    /\ handlePos # Origin
    /\ tipPos # IdealTip
    /\ queryPNormalize(props.gripRatio) = handlePos

(* C9: reset (the constructor's included) leaves tipPos = oldTipPos =      *)
(* handlePos + handleDir * activeLength for the pose of the last swing (or *)
(* the origin facing +y) and the current length and gripRatio; a new stick *)
(* of length 100 with gripRatio 0 has its tip at (0, 100, 0).              *)
C9_ResetRestPose ==
    /\ lastOp \in {"reset", "new"}
          => /\ handlePos = lastPos
             /\ handleDir = VNormalize(lastDir)
             /\ tipPos = IdealTip
             /\ oldTipPos = tipPos
    /\ (lastOp = "new" /\ length = 100 * Q /\ props.gripRatio = 0)
          => tipPos = Vec(0, 100 * Q, 0)

(* a reset after a reconfiguration that changed activeLength of a swung stick *)
C9_ResetMoved ==
    /\ lastOp = "reset"
    /\ prevOp = "updateProperties"
    /\ props.gripRatio > 0
    /\ handlePos # Origin
    /\ tipPos # tipBefore

(* C10: updateProperties changes length and props only: tipPos, oldTipPos, *)
(* handlePos and handleDir stay, the tip is not re-seated.                 *)
C10_UpdateFrame ==
    [][lastOp' = "updateProperties"
          => UNCHANGED <<tipPos, oldTipPos, handlePos, handleDir>>]_vars

(* a reconfiguration of a swung stick that leaves its tip off the rest pose *)
C10_UpdatedOffRest ==
    /\ lastOp = "updateProperties"
    /\ prevOp = "swing"
    /\ tipPos = tipBefore
    /\ tipPos # IdealTip

(***************************************************************************)
(* Queries between the calls: a new Stick, one swing or reset, and         *)
(* queryPNormalize at any time                                             *)
(***************************************************************************)

(* the t queried: the pommel end, inside the pommel and the blade, the tip *)
QueryTs == {0, 2500, 5000, 7500, Q}

(* query that stores the point it returns as the tip *)
queryMoving(t) ==
    /\ queried' = [t |-> t, point |-> queryPNormalize(t)]
    /\ tipPos' = queryPNormalize(t)
    /\ UNCHANGED <<length, props, handlePos, handleDir, oldTipPos, history,
                   ui>>

(* queryPNormalize(t), lines 190-246: no field of the Stick is assigned *)
query(t) ==
    /\ queried' = [t |-> t, point |-> queryPNormalize(t)]
    /\ UNCHANGED <<stick, history, ui>>

firstSwing(h, d, dt) == lastOp = "new" /\ Swing(h, d, dt)

NextQuery ==
    \/ \E h \in Handles, d \in Dirs, dt \in Dts : firstSwing(h, d, dt)
    \/ reset
    \/ \E t \in QueryTs : query(t)

SpecQuery == Init /\ [][NextQuery]_vars

(* C12: a query changes no field of the Stick, and a query that follows a  *)
(* query of the same t, no other call between them, returns the same point. *)
C12_QueryPure ==
    [][queried' # NoQuery
          => /\ UNCHANGED stick
             /\ (queried # NoQuery /\ queried'.t = queried.t)
                   => queried'.point = queried.point]_vars

(* a query inside the blade of a bent stick, after a query of another t *)
C12_Queried ==
    /\ lastOp = "swing"
    /\ stepsRun = subSteps
    /\ queried.t = 7500
    /\ queried.point # handlePos
    /\ queried.point # tipPos

(***************************************************************************)
(* Properties of the sub-steps (SpecStep)                                  *)
(***************************************************************************)

(* a swing has been called: it has entered, or run sub-steps *)
Swung == lastOp \in {"swing", "performPhysicsStep"}

(* handleDir has length 1, up to EpsCos *)
UnitDir == Abs(VLength(handleDir) - QQ) <= EpsCos

(* C11: after a swing whose handleDir argument is not the zero vector the  *)
(* stored handleDir is unit-length, up to EpsCos; after a swing with the   *)
(* zero vector it is the zero vector.                                      *)
C11_UnitDir ==
    Swung => IF lastDir = NoDir THEN handleDir = NoDir ELSE UnitDir

(* C11 as written: after every swing, whatever the handleDir argument, the *)
(* stored handleDir is unit-length.                                        *)
C11_UnitDirAlways == Swung => UnitDir

(* a swing called with a direction of length 3 *)
C11_Normalized ==
    /\ lastOp = "swing"
    /\ lastDir = Slant
    /\ handleDir # StoredDirRaw(lastDir)
    /\ UnitDir

(* the concrete scenario: the default stick of length 100, new, after its  *)
(* first swing, with the handle at the origin tilted to +x and dt = 1/60   *)
Scenario ==
    /\ length = 100 * Q
    /\ props = DefaultProps
    /\ lastOp = "performPhysicsStep"
    /\ stepsRun = subSteps
    /\ nOps = subSteps
    /\ lastPos = Origin
    /\ lastDir = UnitX
    /\ lastDt = 1666667

(* C13: in the scenario the tip is strictly closer to (100, 0, 0) than     *)
(* (0, 100, 0) is, is not at (100, 0, 0), and is within 150 of the handle. *)
C13_Scenario ==
    Scenario
        => /\ VLength(VSub(tipPos, Vec(100 * Q, 0, 0)))
                 < VLength(VSub(Vec(0, 100 * Q, 0), Vec(100 * Q, 0, 0)))
           /\ tipPos # Vec(100 * Q, 0, 0)
           /\ VLength(VSub(tipPos, handlePos)) <= 150 * Q

(* the scenario, the tip having left (0, 100, 0) towards +x *)
C13_TipMoved ==
    /\ Scenario
    /\ tipPos.x > 0
    /\ tipPos.y < 100 * Q

(* vectors normalize is tried on: components 0, 1, -2 and 300 *)
NormComponents == {0, Q, 0 - 2 * Q, 300 * Q}

NormInputs ==
    {Vec(a, b, c) : a \in NormComponents, b \in NormComponents,
                    c \in NormComponents}

(* n is v divided by its length: n * |v| gives v back, up to Eps, and n is *)
(* the zero vector when v is                                               *)
Normalizes(v, n) ==
    IF v = NoDir THEN n = NoDir
    ELSE /\ Abs(Mul8(VLength(v), n.x) - v.x) <= Eps
         /\ Abs(Mul8(VLength(v), n.y) - v.y) <= Eps
         /\ Abs(Mul8(VLength(v), n.z) - v.z) <= Eps
         /\ Abs(VLength(n) - QQ) <= EpsCos

(* C14: normalize of the zero vector is the zero vector, and of any other  *)
(* vector the vector divided by its length: for the direction every swing  *)
(* normalizes, and for every vector of NormInputs (which do not depend on  *)
(* the state: they are tried once, on the new Stick).                      *)
C14_Normalize ==
    /\ Swung => Normalizes(lastDir, handleDir)
    /\ lastOp = "new" => \A v \in NormInputs : Normalizes(v, VNormalize(v))

(* a swing that normalized the zero vector *)
C14_ZeroNormalized ==
    /\ lastOp = "swing"
    /\ lastDir = NoDir
    /\ handleDir = Vec(0, 0, 0)
    /\ prevOp = "new"
    /\ tipBefore # tipPos

(* length * (1 - gripRatio) and dt / 8 of the swing in progress *)
BladeLength == Mul4(length, Q - props.gripRatio)

StepDt == (lastDt + 4) \div 8

(* the sub-step that led here, run again with the residue noise *)
StepAgain(noise) ==
    performPhysicsStep([tip |-> tipBefore, old |-> oldBefore, sing |-> FALSE],
                       handlePos, handleDir, props, BladeLength, StepDt,
                       noise)

(* the state is the one a sub-step of duration dt / 8 on the blade of      *)
(* length BladeLength leaves                                               *)
SteppedByEighth ==
    \E noise \in {0, 0 - 1, 1} :
        /\ tipPos = StepAgain(noise).tip
        /\ oldTipPos = StepAgain(noise).old

(* C15: a swing of a stick with activeLength >= 0.1 runs 8 sub-steps, each *)
(* of duration dt / 8 on the same activeLength, whatever dt and the tip:   *)
(* never more than 8, and the next swing is entered only after the 8th.    *)
C15_EightSteps ==
    /\ [](stepsRun <= 8)
    /\ [](lastOp = "performPhysicsStep" => SteppedByEighth)
    /\ [][(lastOp' = "swing" /\ BladeLength >= 1000)
            => (lastOp = "new" \/ stepsRun = 8)]_vars

(* the 8th sub-step of a swing with dt = 0, entered after a full swing *)
C15_EighthStep ==
    /\ lastOp = "performPhysicsStep"
    /\ stepsRun = 8
    /\ nOps = 16
    /\ lastDt = 0
    /\ BladeLength >= 1000

(* C16: after every sub-step oldTipPos is the tipPos the sub-step started  *)
(* from; after the 8th it is the tipPos the 7th left.                      *)
C16_Commit == lastOp = "performPhysicsStep" => oldTipPos = tipBefore

(* the 8th sub-step of a moving tip: oldTipPos is neither the new tipPos   *)
(* nor the oldTipPos of before                                             *)
C16_Committed ==
    /\ lastOp = "performPhysicsStep"
    /\ stepsRun = 8
    /\ oldTipPos = tipBefore
    /\ oldTipPos # tipPos
    /\ oldTipPos # oldBefore

(* the sub-step that led here, run from another oldTipPos *)
StepFromOld(old, noise) ==
    performPhysicsStep([tip |-> tipBefore, old |-> old, sing |-> FALSE],
                       handlePos, handleDir, props, BladeLength, StepDt,
                       noise)

(* C17: the factor on the implicit velocity of a sub-step lies in [0, 1];  *)
(* when damping * subDt >= 1 it is 0 and the sub-step gives the same tip   *)
(* from any oldTipPos (here: from the origin and from (-50, 7, 3)).        *)
C17_DragRange ==
    lastOp = "performPhysicsStep"
        => /\ Drag(props, StepDt) >= 0
           /\ Drag(props, StepDt) <= QQ
           /\ Mul4(props.damping, StepDt) >= QQ
                 => /\ Drag(props, StepDt) = 0
                    /\ \E noise \in {0, 0 - 1, 1} :
                          /\ tipPos = StepFromOld(Origin, noise).tip
                          /\ tipPos = StepFromOld(Vec(0 - 50 * Q, 7 * Q,
                                                      3 * Q), noise).tip

(* a sub-step with damping * subDt = 5 of a tip that was moving *)
C17_FullyDamped ==
    /\ lastOp = "performPhysicsStep"
    /\ Mul4(props.damping, StepDt) >= QQ
    /\ tipBefore # oldBefore
    /\ oldBefore # Origin
    /\ tipPos # tipBefore

(* nextPos of the sub-step that led here, after the Verlet step and after *)
(* the soft length constraint                                              *)
AfterVerlet ==
    VerletStep(tipBefore, oldBefore, handlePos, handleDir, props,
               BladeLength, StepDt)

AfterSoft == SoftLength(AfterVerlet, handlePos, props, BladeLength, StepDt)

(* the distances of the two from the handle *)
LenVerlet == VLength(VSub(AfterVerlet, handlePos))

LenSoft == VLength(VSub(AfterSoft, handlePos))

(* C18: in a sub-step whose uncorrected distance from the handle is above  *)
(* 0.0001 the corrected distance lies between the uncorrected one and      *)
(* activeLength, the corrected position lies on the ray from the handle    *)
(* through the uncorrected one, and once stretchFactor * 0.05 * subDt >= 1 *)
(* the corrected distance is activeLength; all up to Eps.                  *)
C18_SoftLength ==
    (lastOp = "performPhysicsStep" /\ LenVerlet > 1)
        => /\ LenSoft >= Min(LenVerlet, BladeLength) - Eps
           /\ LenSoft <= Max(LenVerlet, BladeLength) + Eps
           /\ VLength(VSub(VSub(AfterSoft, handlePos),
                           VScale8(VNormalize(VSub(AfterVerlet, handlePos)),
                                   LenSoft))) <= Eps
           /\ Mul4(Mul4(props.stretchFactor, 500), StepDt) >= QQ
                 => Abs(LenSoft - BladeLength) <= Eps

(* a sub-step that relaxed a stretched blade part of the way *)
C18_Relaxed ==
    /\ lastOp = "performPhysicsStep"
    /\ LenVerlet > BladeLength + Q
    /\ LenSoft < LenVerlet - Eps
    /\ LenSoft > BladeLength + Eps

(* a sub-step with stretchFactor * 0.05 * subDt = 2 on a stretched blade *)
C18_FullyCorrected ==
    /\ lastOp = "performPhysicsStep"
    /\ Mul4(Mul4(props.stretchFactor, 500), StepDt) >= QQ
    /\ Abs(LenVerlet - BladeLength) > Q

(* step 4 of the sub-step that led here, for a residue of the two sines *)
Bent(noise) == BendClamp(AfterSoft, handlePos, handleDir, props, noise)

(* the residues with which step 4 and step 5 give the tip of this state *)
BentNoises ==
    {noise \in {0, 0 - 1, 1} :
        tipPos = StretchClamp(Bent(noise).pos, handlePos, props, BladeLength)}

(* the unit direction from the handle to pos, fine *)
DirFromHandle(pos) == VNormalize(VSub(pos, handlePos))

(* the part of the fine vector d that is orthogonal to handleDir *)
OffAxis(d) == VSub(d, VScale8(handleDir, VDot(d, handleDir)))

(* the clamped direction d is a direction (unit length), makes the angle   *)
(* maxBendAngle with handleDir, and its part off the axis points the way   *)
(* the unclamped direction's does                                          *)
OnCone(d, unclamped) ==
    /\ Abs(VLength(d) - QQ) <= EpsCos
    /\ Abs(VDot(d, handleDir) - Cos(MaxAngleRad(props))) <= EpsCos
    /\ VDot(OffAxis(d), OffAxis(unclamped))
          >= Mul8(VLength(OffAxis(d)), VLength(OffAxis(unclamped))) - EpsCos

(* C19: after a sub-step whose bend clamp rewrote nextPos, the direction   *)
(* from the handle to the clamped position makes the angle maxBendAngle    *)
(* with handleDir (up to EpsCos in the cosine) and lies in the half-plane  *)
(* bounded by the axis of handleDir that holds the unclamped direction.    *)
C19_OnCone ==
    (lastOp = "performPhysicsStep" /\ Bent(0).fired)
        => \A noise \in BentNoises :
              OnCone(DirFromHandle(Bent(noise).pos), DirFromHandle(AfterSoft))

(* C20: after a sub-step whose bend clamp rewrote nextPos, the clamped     *)
(* position is as far from the handle as the unclamped one, up to Eps.     *)
C20_KeepsDist ==
    (lastOp = "performPhysicsStep" /\ Bent(0).fired)
        => \A noise \in BentNoises :
              Abs(VLength(VSub(Bent(noise).pos, handlePos)) - LenSoft) <= Eps

(***************************************************************************)
(* Tight hard constraints: the sub-steps of SpecStep on sticks with a      *)
(* narrow bend cone and a stretch cap close to activeLength                *)
(***************************************************************************)

(* maxBendAngle 5 degrees with maxStretchRatio 1.01 *)
TightProps == Props(80000, 25000, 20000, 200000, 0, 10100, 50000, 0)

TightConfig == Config(100 * Q, TightProps)

InitTight == \E c \in {TightConfig, GripConfig} : New(c)

SpecTight == InitTight /\ [][NextStep]_vars

(* the distance from the handle of pos *)
DistFromHandle(pos) == VLength(VSub(pos, handlePos))

(* C21: every sub-step ends with the tip inside the stretch bound, up to   *)
(* Eps; when the position the bend clamp has written is beyond the bound,  *)
(* the same sub-step ends with the tip on the bound.                       *)
C21_SameStep ==
    lastOp = "performPhysicsStep"
        => /\ TipDist <= StretchCap + Eps
           /\ \A noise \in BentNoises :
                 (Bent(noise).fired
                    /\ DistFromHandle(Bent(noise).pos) > StretchCap + Eps)
                     => Abs(TipDist - StretchCap) <= Eps

(* C21 as written: a sub-step whose bend clamp has written a position      *)
(* beyond the stretch bound ends with the tip outside the bound.           *)
C21_NextStep ==
    lastOp = "performPhysicsStep"
        => \A noise \in BentNoises :
              (Bent(noise).fired
                 /\ DistFromHandle(Bent(noise).pos) > StretchCap + Eps)
                  => TipDist > StretchCap + Eps

(* a sub-step of the 5-degree, 1.01 stick whose bend clamp wrote a position *)
(* more than 1 beyond the bound, off the axis of handleDir                 *)
C21_BentBeyond ==
    /\ lastOp = "performPhysicsStep"
    /\ props = TightProps
    /\ ~Bent(0).sing
    /\ Bent(0).fired
    /\ DistFromHandle(Bent(0).pos) > StretchCap + Q
    /\ TipDist <= StretchCap + Eps

(***************************************************************************)
(* Properties of the calls that follow updateProperties (Spec)             *)
(***************************************************************************)

(* C22: the call that follows updateProperties works on the activeLength   *)
(* of the length and gripRatio just installed.  A swing snaps the tip to   *)
(* the handle and runs no sub-step exactly when that activeLength is below *)
(* 0.1; otherwise it leaves the tip within the stretch cap of that         *)
(* activeLength, and a swing of 16 s (alpha = 1 in every sub-step) leaves  *)
(* it at that activeLength from the handle, or on the handle.  A reset     *)
(* seats the tip at handlePos + handleDir * activeLength.  A query of the  *)
(* tip end returns handlePos when that activeLength is at most 0.1 and     *)
(* tipPos otherwise.                                                       *)
C22_Recomputed ==
    prevOp = "updateProperties"
        => /\ lastOp = "swing"
                 => /\ stepsRun = (IF BladeLength < 1000 THEN 0 ELSE subSteps)
                    /\ BladeLength < 1000 => tipPos = handlePos
                    /\ TipDist <= StretchCap + Eps
                    /\ (BladeLength >= 1000 /\ lastDt = 16 * QQ)
                          => \/ Abs(TipDist - BladeLength) <= Eps
                             \/ tipPos = handlePos
           /\ lastOp = "reset" => (tipPos = IdealTip /\ oldTipPos = IdealTip)
           /\ queryPNormalize(Q)
                 = (IF BladeLength <= 1000 THEN handlePos ELSE tipPos)

(* a swing of 16 s after a reconfiguration that halved activeLength: the   *)
(* tip, 100 from the handle before, is 50 from it after                    *)
C22_Shortened ==
    /\ lastOp = "swing"
    /\ prevOp = "updateProperties"
    /\ lastDt = 16 * QQ
    /\ BladeLength = 50 * Q
    /\ VLength(VSub(tipBefore, handlePos)) > 90 * Q
    /\ Abs(TipDist - BladeLength) <= Eps

(***************************************************************************)
(* Properties of the pommel query (SpecQuery)                              *)
(***************************************************************************)

(* the t tried behind the grip: below the pommel end, the pommel end,      *)
(* inside the pommel, just behind the grip of 0.5                          *)
PommelTs == {0 - 2500, 0, 2500, 4999}

(* queryPNormalize(t) of the stick with its tip pair elsewhere *)
QueryWithTip(t, tip) == QueryOf(t, length, props, handlePos, handleDir, tip)

(* the point pt lies behind the handle on the axis of handleDir, at the    *)
(* distance (gripRatio - t) * length, up to Eps                            *)
BehindHandle(t, pt) ==
    /\ Abs(VDot(VSub(pt, handlePos), handleDir)
             + Mul4(props.gripRatio - t, length)) <= Eps
    /\ Abs(DistFromHandle(pt) - Mul4(props.gripRatio - t, length)) <= Eps

(* C23: for t < gripRatio with gripRatio > 0 the query returns the point   *)
(* at (gripRatio - t) * length behind the handle along handleDir, the same *)
(* point wherever the tip is; with gripRatio = 0 and t negative it returns *)
(* handlePos.  For the t of PommelTs and for the t last queried.           *)
C23_Pommel ==
    /\ \A t \in PommelTs :
          t < props.gripRatio
              => IF props.gripRatio = 0
                 THEN queryPNormalize(t) = handlePos
                 ELSE /\ BehindHandle(t, queryPNormalize(t))
                      /\ QueryWithTip(t, handlePos) = queryPNormalize(t)
                      /\ QueryWithTip(t, Vec(7 * Q, 0 - 50 * Q, 3 * Q))
                            = queryPNormalize(t)
    /\ (queried # NoQuery /\ queried.t < props.gripRatio)
          => BehindHandle(queried.t, queried.point)

(* a query inside the pommel of a gripped stick, swung and bent *)
C23_PommelQueried ==
    /\ lastOp = "swing"
    /\ stepsRun = subSteps
    /\ props.gripRatio = 5000
    /\ queried.t = 2500
    /\ handlePos # Origin
    /\ tipPos # IdealTip
    /\ queried.point # handlePos

(***************************************************************************)
(* Properties of the two hard constraints together (SpecTight)             *)
(***************************************************************************)

(* C24: every sub-step of a swing with a non-zero handleDir ends with the  *)
(* tip inside the stretch bound (up to Eps) and, when maxBendAngle < 179.9 *)
(* and the tip is more than 0.0001 from the handle, inside the bend cone   *)
(* (up to EpsCos in the cosine); the committed tip lies on the ray from    *)
(* the handle through the position the bend clamp left.                    *)
C24_BothClamps ==
    (lastOp = "performPhysicsStep" /\ handleDir # NoDir)
        => /\ TipDist <= StretchCap + Eps
           /\ (props.maxBendAngle < 1799000 /\ TipDist > 1)
                 => CosTip >= Cos(MaxAngleRad(props)) - EpsCos
           /\ \A noise \in BentNoises :
                 DistFromHandle(Bent(noise).pos) > 1
                     => VDot(DirFromHandle(tipPos),
                             DirFromHandle(Bent(noise).pos)) >= QQ - EpsCos

(***************************************************************************)
(* The stick at rest: a new Stick, one swing to a pose, reset, and swings  *)
(* that repeat the pose                                                    *)
(***************************************************************************)

(* maxStretchRatio exactly 1 with a bend cone of 0 degrees, gripped *)
ExactConfig ==
    Config(100 * Q, Props(80000, 25000, 20000, 200000, 2500, Q, 0, 5000))

RestConfigs == {DefaultConfig, GripConfig, TightConfig, ExactConfig}

(* the poses of the first swing; <<Origin, Up>> is the constructor's *)
RestPoses ==
    {<<Origin, Up>>, <<Origin, Down>>, <<Vec(30 * Q, 40 * Q, 0), Slant>>,
     <<Vec(30 * Q, 40 * Q, 0), Vec(Q, Q, 0)>>,
     <<Origin, Vec(0 - 2 * Q, 3 * Q, 3 * Q)>>,
     <<Origin, NoDir>>}

InitRest == \E c \in RestConfigs : New(c)

(* a swing with the handle pose of the swing before, after a reset or      *)
(* after the swing that followed it                                        *)
sameSwing(dt) ==
    /\ \/ lastOp = "reset"
       \/ lastOp = "swing" /\ prevOp = "reset"
    /\ Swing(lastPos, lastDir, dt)

NextRest ==
    \/ \E pose \in RestPoses, dt \in Dts : firstSwing(pose[1], pose[2], dt)
    \/ reset
    \/ \E dt \in Dts : sameSwing(dt)

SpecRest == InitRest /\ [][NextRest]_vars

(* the last call was a swing with the handle pose the stick had before it *)
SamePose ==
    /\ lastOp = "swing"
    /\ prevOp = "new" => (lastPos = Origin /\ lastDir = Up)

(* tipPos and oldTipPos are within Eps of the rest pose *)
BothAtRest ==
    /\ VLength(VSub(tipPos, IdealTip)) <= Eps
    /\ VLength(VSub(oldTipPos, IdealTip)) <= Eps

(* C25: a swing that finds tipPos = oldTipPos = handlePos + handleDir *    *)
(* activeLength, with activeLength >= 0.1 and maxStretchRatio >= 1, and    *)
(* repeats the handle pose, leaves tipPos and oldTipPos there, whatever    *)
(* its dt; so does the swing that follows it with the same pose.  Up to    *)
(* Eps.                                                                    *)
C25_RestFixed ==
    (SamePose /\ BladeLength >= 1000 /\ props.maxStretchRatio >= Q)
        => /\ (tipBefore = IdealTip /\ oldBefore = IdealTip) => BothAtRest
           /\ prevOp = "swing" => BothAtRest

(***************************************************************************)
(* Rods around the degenerate threshold: activeLength 0.05, exactly 0.1    *)
(* (0.1 * (1 - 0) and 0.2 * (1 - 0.5), both exact in doubles) and 1, with  *)
(* the calls of SpecQuery                                                  *)
(***************************************************************************)
EdgeConfigs ==
    {ShortConfig, Config(Q \div 10, DefaultProps),
     Config(2 * (Q \div 10), GripProps), Config(Q, DefaultProps)}

InitEdge == \E c \in EdgeConfigs : New(c)

SpecEdge == InitEdge /\ [][NextQuery]_vars

(* C26: after a swing, a rod with activeLength < 0.1 has run no sub-step,  *)
(* its tip is on the handle and Query(1) is handlePos; a rod with          *)
(* activeLength > 0.1 has run the 8 sub-steps and Query(1) is tipPos; a    *)
(* rod with activeLength exactly 0.1 has run the 8 sub-steps and Query(1)  *)
(* is handlePos.  With activeLength <= 0.1 every query of t >= gripRatio   *)
(* is handlePos.                                                           *)
C26_Classes ==
    lastOp = "swing"
        => /\ BladeLength < 1000
                 => /\ stepsRun = 0
                    /\ tipPos = handlePos
                    /\ queryPNormalize(Q) = handlePos
           /\ BladeLength > 1000
                 => /\ stepsRun = subSteps
                    /\ queryPNormalize(Q) = tipPos
           /\ BladeLength = 1000
                 => /\ stepsRun = subSteps
                    /\ queryPNormalize(Q) = handlePos
           /\ BladeLength <= 1000
                 => \A t \in QueryTs :
                       t >= props.gripRatio => queryPNormalize(t) = handlePos

(* C26 as written: no swing runs the 8 sub-steps and leaves the tip off    *)
(* the handle while Query(1) returns handlePos.                            *)
C26_SameClass ==
    (lastOp = "swing" /\ stepsRun = subSteps /\ tipPos # handlePos)
        => queryPNormalize(Q) # handlePos

(* a rod of activeLength 0.2 * (1 - 0.5) swung through its sub-steps, the  *)
(* tip off the handle, and Query(1) answered with handlePos                *)
C26_Boundary ==
    /\ lastOp = "swing"
    /\ props.gripRatio = 5000
    /\ BladeLength = 1000
    /\ stepsRun = subSteps
    /\ TipDist > 500
    /\ queried.t = Q
    /\ queried.point = handlePos

(***************************************************************************)
(* The material presets of the UI.  App holds length and elasticProps in   *)
(* React state; a set-state call in an event handler changes what the next *)
(* render sees, and the effect of StickVisualizer hands the rendered       *)
(* values to the Stick after that render.  The render and its effect       *)
(* follow the handler before any other event or frame runs.                *)
(***************************************************************************)

(* presets[2].params, "Fishing Rod" *)
FishingRod == Props(600000, 10000, 5000, 3000000, 0, 10500, 1600000, 8000)

(* presets[4].params, "Rubber Hose" *)
RubberHose == Props(100000, 30000, 15000, 200000, 0, 13000, 1800000, 0)

Presets == {FishingRod, RubberHose}

(* the positions of the grip slider that are tried *)
GripRatios == {0, 2500, 5000}

(* const stick = useMemo(() => new Stick(length, elasticProps), []) with   *)
(* the initial React state                                                 *)
InitUI == New(DefaultConfig)

(* a handler has set React state and the render has not happened yet *)
RenderPending == lastOp \in {"setGripRatio", "applyPreset"}

(* onChange of the grip slider: setGripRatio(Number(e.target.value)) *)
setGripRatio(g) ==
    /\ ~RenderPending
    /\ g # ui.props.gripRatio
    /\ ui' = [ui EXCEPT !.props.gripRatio = g]
    /\ lastOp' = "setGripRatio"
    /\ prevOp' = lastOp
    /\ UNCHANGED <<stick, lastPos, lastDir, lastDt, stepsRun, tipBefore,
                   oldBefore, nOps, queried>>

(* applyPreset(p): every field of p is defined, so each setter is called,  *)
(* then stick.reset() runs in the handler                                  *)
applyPreset(p) ==
    /\ ~RenderPending
    /\ ui' = [ui EXCEPT !.props = p]
    /\ Reset("applyPreset")

(* useEffect(() => props.stick.updateProperties(props.length,              *)
(* props.elasticProps)) after the render that follows a handler            *)
useEffect ==
    /\ RenderPending
    /\ UpdateProperties(ui)

(* useFrame: stick.swing(handlePos, dir, dt), one frame of 1/60 s after a  *)
(* render                                                                  *)
useFrame(h, d) ==
    /\ nOps < MaxOps
    /\ lastOp \in {"new", "updateProperties"}
    /\ Swing(h, d, 1666667)

NextUI ==
    \/ \E g \in GripRatios : setGripRatio(g)
    \/ \E p \in Presets : applyPreset(p)
    \/ useEffect
    \/ \E h \in Handles, d \in Dirs : useFrame(h, d)

SpecUI == InitUI /\ [][NextUI]_vars

(* the preset that was applied is installed in the Stick *)
PresetInstalled == lastOp = "updateProperties" /\ prevOp = "applyPreset"

(* C27: once an applied preset has been installed in the Stick, the tip    *)
(* and its previous position are at the rest pose of the installed         *)
(* configuration, handlePos + handleDir * length * (1 - gripRatio) with    *)
(* the preset's gripRatio: the reset of applyPreset acted on the new       *)
(* properties.                                                             *)
C27_PresetReset ==
    PresetInstalled => (tipPos = IdealTip /\ oldTipPos = IdealTip)

====
